---- MODULE Spec2Model ----
(***************************************************************************)
(* Model of streamlit_app.py (Chinese novel splitter): the diagnostic      *)
(* function log, the decoder try_decode_until_marker, the segmenter        *)
(* split_novel and the part of main that chains them.                      *)
(*                                                                         *)
(* A Python str is a sequence of Unicode code points and a bytes object a  *)
(* sequence of integers 0..255.  Offsets are Python's (0-based): offset p  *)
(* lies before the character t[p+1].                                       *)
(***************************************************************************)
EXTENDS Integers, Sequences, FiniteSets, TLC

VARIABLES
    log_level,   \* global log_level read by log (main, line 122)
    config,      \* the configuration dict: the three marker patterns
    raw,         \* uploaded bytes (main, line 150)
    encodings,   \* candidate encodings handed to try_decode_until_marker
    decoded,     \* what try_decode_until_marker returned
    text,        \* the decoded text handed to split_novel
    result,      \* what split_novel returned or raised
    calls,       \* the log(msg, level) calls of the last operation, in order
    emitted,     \* those of them log handed on to the logging module
    pc           \* position in main

vars == <<log_level, config, raw, encodings, decoded, text, result, calls, emitted, pc>>

----------------------------------------------------------------------------
(* Characters, by code point.                                              *)

NL == 10           \* "\n"
CR == 13           \* "\r"
SP == 32           \* " "
SLASH == 47        \* "/"
FW_SLASH == 65295  \* full-width solidus U+FF0F
COLON == 58        \* ":"
FW_COLON == 65306  \* full-width colon U+FF1A
L_BRACKET == 12302 \* left white corner bracket U+300E
R_BRACKET == 12303 \* right white corner bracket U+300F
DI == 31532        \* U+7B2C "di" (ordinal prefix of a chapter heading)
ZHANG == 31456     \* U+7AE0 "zhang" (chapter)
HUI == 22238       \* U+56DE "hui" (chapter, older style)
ZUO == 20316       \* U+4F5C \ "zuozhe" (author)
ZHE == 32773       \* U+8005 /
NEI == 20869       \* U+5185 \ "neirong" (content)
RONG == 23481      \* U+5BB9 /
JIAN == 31616      \* U+7B80 \ "jianjie" (summary)
JIE == 20171       \* U+4ECB /
LATIN_a == 97
LATIN_b == 98
LATIN_x == 120
LATIN_y == 121
DIGIT_1 == 49      \* "1"
FW_DIGIT_1 == 65297 \* full-width digit one U+FF11
CN_ONE == 19968    \* U+4E00, the Chinese numeral one
CN_TWO == 20108    \* U+4E8C, the Chinese numeral two

\* \s of a str pattern and the characters str.strip() removes: str.isspace().
Whitespace ==
    {9, 10, 11, 12, 13, 28, 29, 30, 31, 32, 133, 160, 5760} \cup (8192..8202)
        \cup {8232, 8233, 8239, 8287, 12288}

\* \d of a str pattern: decimal digits; the ASCII and the full-width ones are
\* the ones the model's texts use.
UnicodeDigits == (48..57) \cup (65296..65305)

\* The literal numerals of the character classes of lines 33 and 35.
ChineseNumerals ==
    {19968, 20108, 19977, 22235, 20116, 20845, 19971, 20843, 20061, 21313,
     30334, 21315, 19975, 38646, 12295}

\* [\d FF10-FF19 <numerals>] of chapter_marker (line 33).
ChapterDigits == UnicodeDigits \cup (65296..65305) \cup ChineseNumerals

\* [\d <numerals>] of the lookahead of summary_marker (line 35).
SummaryDigits == UnicodeDigits \cup ChineseNumerals

----------------------------------------------------------------------------
(* Strings.                                                                *)

\* F applied to the value of v, which is computed once.
Bind(v, F(_)) == CHOOSE r \in {F(x) : x \in {v}} : TRUE

\* text[a:b]
Slice(t, a, b) == SubSeq(t, a + 1, b)

\* Whether the literal lit stands at offset p of t.
StartsWithAt(t, p, lit) ==
    /\ p + Len(lit) <= Len(t)
    /\ \A i \in 1..Len(lit) : t[p + i] = lit[i]

\* A greedy run X* of a character class from offset p: the offset it ends at.
RECURSIVE SkipWhile(_, _, _)
SkipWhile(t, p, class) ==
    IF p < Len(t) /\ t[p + 1] \in class THEN SkipWhile(t, p + 1, class) ELSE p

\* A greedy run [^...]* of a negated class from offset p.
RECURSIVE SkipUntil(_, _, _)
SkipUntil(t, p, class) ==
    IF p < Len(t) /\ t[p + 1] \notin class THEN SkipUntil(t, p + 1, class) ELSE p

\* str.strip()
RECURSIVE LStrip(_)
LStrip(s) == IF s # <<>> /\ Head(s) \in Whitespace THEN LStrip(Tail(s)) ELSE s

RECURSIVE RStrip(_)
RStrip(s) ==
    IF s # <<>> /\ s[Len(s)] \in Whitespace THEN RStrip(SubSeq(s, 1, Len(s) - 1)) ELSE s

Strip(s) == RStrip(LStrip(s))

\* ^ under re.M: at the start of the text and after every "\n".
LineStart(t, p) == p = 0 \/ t[p] = NL

----------------------------------------------------------------------------
(* The marker patterns.  A pattern is named; each name stands for the      *)
(* regular expression quoted beside it, and matching is written out as the *)
(* backtracking matcher of re performs it on that expression.              *)

\* load_config's chapter_marker (line 33):
\*   ^(?P<full>DI\s*[\d FF10-FF19 <numerals>]+[ZHANG HUI]\s*[^\n\r]*)
DefaultChapterMarker == "default_chapter_marker"
\* A chapter marker a user may type in the sidebar (line 134):
\*   ^DI(?P<full>[^\n]*)
\* a heading is a line that starts with DI, its title the rest of the line.
RestOfLineChapterMarker == "^DI(?P<full>[^\\n]*)"
\* A pattern that does not compile (unbalanced parenthesis): ^(?P<full>DI
UnclosedGroupMarker == "^(?P<full>DI"
\* load_config's book_title_marker (line 34).
DefaultBookTitleMarker == "default_book_title_marker"
\* load_config's summary_marker (line 35).
DefaultSummaryMarker == "default_summary_marker"
\* A summary marker a user may type in the sidebar (line 136):
\*   JIAN JIE[:FF1A]?(?P<summary>[^\n]+)?
\* the summary is the rest of the marker's line, the group optional.
OptionalGroupSummaryMarker == "JIANJIE[:]?(?P<summary>[^\\n]+)?"

\* Whether re compiles the pattern; re.search and re.compile raise re.error
\* when it does not.
Compiles(pattern) == pattern # UnclosedGroupMarker

NoMatch == [start |-> -1, end |-> -1, full |-> <<>>]

\* The default chapter marker tried at offset p.  Every repetition is greedy
\* and no two adjacent classes overlap except \s* and [^\n\r]*, whose greedy
\* split always succeeds, so the first path of the matcher is the match.
DefaultChapterMatchAt(t, p) ==
    IF ~(LineStart(t, p) /\ p < Len(t) /\ t[p + 1] = DI) THEN NoMatch
    ELSE LET a == SkipWhile(t, p + 1, Whitespace)
             b == SkipWhile(t, a, ChapterDigits)
         IN  IF b = a \/ b >= Len(t) THEN NoMatch
             ELSE IF t[b + 1] \notin {ZHANG, HUI} THEN NoMatch
             ELSE LET c == SkipWhile(t, b + 1, Whitespace)
                      e == SkipUntil(t, c, {NL, CR})
                  IN  [start |-> p, end |-> e, full |-> Slice(t, p, e)]

\* ^DI(?P<full>[^\n]*) tried at offset p.
RestOfLineChapterMatchAt(t, p) ==
    IF ~(LineStart(t, p) /\ p < Len(t) /\ t[p + 1] = DI) THEN NoMatch
    ELSE LET e == SkipUntil(t, p + 1, {NL})
         IN  [start |-> p, end |-> e, full |-> Slice(t, p + 1, e)]

ChapterMatchAt(pattern, t, p) ==
    IF pattern = DefaultChapterMarker THEN DefaultChapterMatchAt(t, p)
    ELSE IF pattern = RestOfLineChapterMarker THEN RestOfLineChapterMatchAt(t, p)
    ELSE NoMatch

\* chapter_regex.finditer(text): the non-overlapping matches, left to right;
\* after an empty match the scan moves on by one character.
RECURSIVE FindIterFrom(_, _, _)
FindIterFrom(pattern, t, p) ==
    IF p > Len(t) THEN <<>>
    ELSE Bind(ChapterMatchAt(pattern, t, p), LAMBDA m :
             IF m = NoMatch THEN FindIterFrom(pattern, t, p + 1)
             ELSE <<m>> \o FindIterFrom(pattern, t, IF m.end > p THEN m.end ELSE p + 1))

finditer(pattern, t) == FindIterFrom(pattern, t, 0)

\* bool(re.search(marker_regex, text, re.M)) for a pattern that compiles.
SearchFinds(pattern, t) ==
    \E p \in 0..Len(t) : ChapterMatchAt(pattern, t, p) # NoMatch

----------------------------------------------------------------------------
(* Metadata patterns.  A named group of a match is either unset (None in   *)
(* groupdict()) or holds the text it captured.                             *)

Unset == [set |-> FALSE, val |-> <<>>]
Group(v) == [set |-> TRUE, val |-> v]

\* Python's truth value of groupdict().get(name): None and "" are false.
Truthy(g) == g.set /\ g.val # <<>>

NoTitleMatch ==
    [found |-> FALSE, title |-> Unset, author |-> Unset,
     title_alt |-> Unset, author_alt |-> Unset]

AuthorLabel(t, p) ==
    StartsWithAt(t, p, <<ZUO, ZHE>>) /\ p + 2 < Len(t)
        /\ t[p + 3] \in {COLON, FW_COLON}

\* First alternative of book_title_marker after its optional bracket, the
\* title starting at offset ts:
\*   (?P<title>[^\n/FF0F]+)[/FF0F](?:ZUO ZHE[:FF1A])?(?P<author>[^\n R_BRACKET]+)
\* The title run cannot be shortened (the character after it must be a
\* solidus); the optional label is taken first and given back when no author
\* text follows it.
TitleAlt1Body(t, ts) ==
    LET e == SkipUntil(t, ts, {NL, SLASH, FW_SLASH})
    IN  IF e = ts \/ e >= Len(t) THEN NoTitleMatch
        ELSE IF t[e + 1] \notin {SLASH, FW_SLASH} THEN NoTitleMatch
        ELSE LET a0 == e + 1
                 a1 == IF AuthorLabel(t, a0) THEN a0 + 3 ELSE a0
                 e1 == SkipUntil(t, a1, {NL, R_BRACKET})
                 e0 == SkipUntil(t, a0, {NL, R_BRACKET})
             IN  IF e1 > a1
                 THEN [NoTitleMatch EXCEPT !.found = TRUE,
                          !.title = Group(Slice(t, ts, e)),
                          !.author = Group(Slice(t, a1, e1))]
                 ELSE IF e0 > a0
                 THEN [NoTitleMatch EXCEPT !.found = TRUE,
                          !.title = Group(Slice(t, ts, e)),
                          !.author = Group(Slice(t, a0, e0))]
                 ELSE NoTitleMatch

\* First alternative at offset p: the optional opening bracket is consumed
\* first, and left to the title group when that fails.
TitleAlt1(t, p) ==
    LET inside == IF p < Len(t) /\ t[p + 1] = L_BRACKET
                  THEN TitleAlt1Body(t, p + 1) ELSE NoTitleMatch
    IN  IF inside.found THEN inside ELSE TitleAlt1Body(t, p)

\* Second alternative at offset p (re.M, "." is any character but "\n"):
\*   ^(?P<title_alt>.+)[\r\n]+ZUO ZHE[:FF1A](?P<author_alt>.+)
\* title_alt is the longest prefix of the line after which the rest matches.
TitleAlt2(t, p) ==
    IF ~LineStart(t, p) THEN NoTitleMatch
    ELSE LET le == SkipUntil(t, p, {NL})
             ok(k) == /\ k < Len(t)
                      /\ t[k + 1] \in {CR, NL}
                      /\ LET r == SkipWhile(t, k, {CR, NL})
                         IN  AuthorLabel(t, r) /\ SkipUntil(t, r + 3, {NL}) > r + 3
             ks == {k \in (p + 1)..le : ok(k)}
         IN  IF ks = {} THEN NoTitleMatch
             ELSE LET k == CHOOSE x \in ks : \A y \in ks : y <= x
                      r == SkipWhile(t, k, {CR, NL})
                  IN  [NoTitleMatch EXCEPT !.found = TRUE,
                          !.title_alt = Group(Slice(t, p, k)),
                          !.author_alt = Group(Slice(t, r + 3, SkipUntil(t, r + 3, {NL})))]

\* re.search(book_title_marker, text, re.M): the leftmost offset at which an
\* alternative matches, the first alternative before the second.
RECURSIVE TitleSearchFrom(_, _)
TitleSearchFrom(t, p) ==
    IF p > Len(t) THEN NoTitleMatch
    ELSE Bind(TitleAlt1(t, p), LAMBDA m1 :
             IF m1.found THEN m1
             ELSE Bind(TitleAlt2(t, p), LAMBDA m2 :
                      IF m2.found THEN m2 ELSE TitleSearchFrom(t, p + 1)))

TitleSearch(pattern, t) == TitleSearchFrom(t, 0)

NoSummaryMatch == [found |-> FALSE, start |-> -1, end |-> -1, summary |-> Unset]

\* (?:NEI RONG JIAN JIE|JIAN JIE) at offset p: the offset after it, or -1.
SummaryLabelEnd(t, p) ==
    IF StartsWithAt(t, p, <<NEI, RONG, JIAN, JIE>>) THEN p + 4
    ELSE IF StartsWithAt(t, p, <<JIAN, JIE>>) THEN p + 2
    ELSE -1

\* The lookahead of summary_marker at offset q (re.S only, so $ is the end of
\* the text or the place before a final "\n"):
\*   (?=\n+DI[\d <numerals>]+ZHANG|\n*$)
SummaryLookahead(t, q) ==
    LET n == SkipWhile(t, q, {NL})
        d == SkipWhile(t, n + 1, SummaryDigits)
    IN  \/ /\ n > q
           /\ n < Len(t) /\ t[n + 1] = DI
           /\ d > n + 1
           /\ d < Len(t) /\ t[d + 1] = ZHANG
        \/ n = Len(t)

\* .+? from offset s: the least end q > s at which the lookahead holds (the end
\* of the text always does).
RECURSIVE LazyEnd(_, _)
LazyEnd(t, q) == IF q >= Len(t) \/ SummaryLookahead(t, q) THEN q ELSE LazyEnd(t, q + 1)

\* [:FF1A]?\s*(?P<summary>.+?)... after the label ending at m: where the
\* summary group starts, or -1.  The colon and the whitespace are taken
\* greedily and given back, last taken first, until one character is left
\* for the group.
SummaryStart(t, m) ==
    LET colon == m < Len(t) /\ t[m + 1] \in {COLON, FW_COLON}
        c == IF colon THEN m + 1 ELSE m
        w == SkipWhile(t, c, Whitespace)
    IN  IF c < Len(t) THEN (IF w < Len(t) THEN w ELSE Len(t) - 1)
        ELSE IF colon THEN m
        ELSE -1

DefaultSummaryMatchAt(t, p) ==
    LET m == SummaryLabelEnd(t, p)
        s == IF m < 0 THEN -1 ELSE SummaryStart(t, m)
    IN  IF s < 0 THEN NoSummaryMatch
        ELSE LET q == LazyEnd(t, s + 1)
             IN  [found |-> TRUE, start |-> s, end |-> q,
                  summary |-> Group(Slice(t, s, q))]

\* JIAN JIE[:FF1A]?(?P<summary>[^\n]+)? at offset p: the group takes part in
\* the match only when text follows on the label's line.
OptionalGroupSummaryMatchAt(t, p) ==
    IF ~StartsWithAt(t, p, <<JIAN, JIE>>) THEN NoSummaryMatch
    ELSE LET m == p + 2
             c == IF m < Len(t) /\ t[m + 1] \in {COLON, FW_COLON} THEN m + 1 ELSE m
             e == SkipUntil(t, c, {NL})
         IN  IF e > c
             THEN [found |-> TRUE, start |-> c, end |-> e,
                   summary |-> Group(Slice(t, c, e))]
             ELSE [found |-> TRUE, start |-> c, end |-> c, summary |-> Unset]

SummaryMatchAt(pattern, t, p) ==
    IF pattern = DefaultSummaryMarker THEN DefaultSummaryMatchAt(t, p)
    ELSE OptionalGroupSummaryMatchAt(t, p)

\* re.search(summary_marker, text, re.S): the leftmost match.
RECURSIVE SummarySearchFrom(_, _, _)
SummarySearchFrom(pattern, t, p) ==
    IF p > Len(t) THEN NoSummaryMatch
    ELSE Bind(SummaryMatchAt(pattern, t, p), LAMBDA m :
             IF m.found THEN m ELSE SummarySearchFrom(pattern, t, p + 1))

SummarySearch(pattern, t) == SummarySearchFrom(pattern, t, 0)

----------------------------------------------------------------------------
(* log (lines 13-21).                                                      *)

LOG_LEVELS == <<"NONE", "ERROR", "WARNING", "INFO", "DEBUG">>

\* LOG_LEVELS.index(level), counted from 1.
LevelIndex(level) == CHOOSE i \in 1..Len(LOG_LEVELS) : LOG_LEVELS[i] = level

\* allowed_levels = LOG_LEVELS[LOG_LEVELS.index(log_level):]
allowed_levels(configured) ==
    {LOG_LEVELS[i] : i \in LevelIndex(configured)..Len(LOG_LEVELS)}

\* Whether log(msg, level) reaches its last line and hands msg to the logging
\* module, under the configured level.
Forwards(configured, level) ==
    IF configured = "NONE" THEN FALSE ELSE level \in allowed_levels(configured)

Event(level, msg) == [level |-> level, msg |-> msg]

\* log(msg, level): out is what the logging module has been handed so far.
log(out, event) ==
    IF Forwards(log_level, event.level) THEN Append(out, event) ELSE out

\* A run of log calls, in order.
RECURSIVE LogAll(_, _)
LogAll(out, cs) == IF cs = <<>> THEN out ELSE LogAll(log(out, Head(cs)), Tail(cs))

----------------------------------------------------------------------------
(* split_novel (lines 71-118).                                             *)

\* "UnknownBook", "UnknownAuthor", "No summary available."
UnknownBook == <<85, 110, 107, 110, 111, 119, 110, 66, 111, 111, 107>>
UnknownAuthor == <<85, 110, 107, 110, 111, 119, 110, 65, 117, 116, 104, 111, 114>>
NoSummaryAvailable ==
    <<78, 111, 32, 115, 117, 109, 109, 97, 114, 121, 32, 97, 118, 97, 105, 108,
      97, 98, 108, 101, 46>>

NoMeta == [bookName |-> <<>>, author |-> <<>>, latestChapter |-> <<>>, summary |-> <<>>]

\* An exception leaving split_novel.
Raised(kind, cs) == [kind |-> kind, meta |-> NoMeta, chapters |-> <<>>, calls |-> cs]

NoChaptersFound == "Exception: chapter start marker not found"

\* Lines 74-83: book_name and author, and the log call made.
BookNameOf(tm) ==
    IF ~tm.found THEN UnknownBook
    ELSE IF Truthy(tm.title) THEN tm.title.val
    ELSE IF Truthy(tm.title_alt) THEN tm.title_alt.val
    ELSE UnknownBook

AuthorOf(tm) ==
    IF ~tm.found THEN UnknownAuthor
    ELSE IF Truthy(tm.author) THEN tm.author.val
    ELSE IF Truthy(tm.author_alt) THEN tm.author_alt.val
    ELSE UnknownAuthor

\* ChaptersOf as an earlier revision had it: chapters with an empty title are
\* left out.
ChaptersOfNonEmptyTitles(t, matches) ==
    SelectSeq([i \in 1..Len(matches) |->
                  [title |-> Strip(matches[i].full),
                   body |-> Strip(Slice(t, matches[i].end,
                                        IF i + 1 <= Len(matches) THEN matches[i + 1].start
                                        ELSE Len(t)))]],
              LAMBDA ch : ch.title # <<>>)

\* ChaptersOf with the body starting at match.start() instead of match.end().
ChaptersOfFromMatchStart(t, matches) ==
    [i \in 1..Len(matches) |->
        [title |-> Strip(matches[i].full),
         body |-> Strip(Slice(t, matches[i].start,
                              IF i + 1 <= Len(matches) THEN matches[i + 1].start
                              ELSE Len(t)))]]

\* Lines 99-106: one record per match; the body runs from the end of the match
\* to the start of the next one, or to the end of the text.
ChaptersOf(t, matches) ==
    [i \in 1..Len(matches) |->
        LET start == matches[i].end
            end == IF i + 1 <= Len(matches) THEN matches[i + 1].start ELSE Len(t)
        IN  [title |-> Strip(matches[i].full), body |-> Strip(Slice(t, start, end))]]

\* PartitionChapters without the check of lines 95-97.
PartitionChaptersUnguarded(t, chapter_marker, book_name, author, summary, cs) ==
    [kind |-> "ok",
     meta |-> [bookName |-> book_name, author |-> author,
               latestChapter |-> <<>>, summary |-> summary],
     chapters |-> ChaptersOf(t, finditer(chapter_marker, t)),
     calls |-> cs]

\* Lines 93-108 once the metadata is known.
PartitionChapters(t, chapter_marker, book_name, author, summary, cs) ==
    IF ~Compiles(chapter_marker) THEN Raised("re.error", cs)
    ELSE Bind(finditer(chapter_marker, t), LAMBDA matches :
             IF matches = <<>>
             THEN Raised(NoChaptersFound, Append(cs, Event("ERROR", "No chapters found.")))
             ELSE Bind(ChaptersOf(t, matches), LAMBDA chapters :
                      [kind |-> "ok",
                       meta |-> [bookName |-> book_name,
                                 author |-> author,
                                 latestChapter |->
                                     IF chapters # <<>> THEN chapters[Len(chapters)].title
                                     ELSE <<>>,
                                 summary |-> summary],
                       chapters |-> chapters,
                       calls |-> cs \o [i \in 1..Len(chapters) |->
                                            Event("DEBUG", "Found chapter")]
                                    \o <<Event("INFO", "Total chapters extracted")>>]))

\* Lines 85-91 and on, the title match tm and the summary match sm known:
\* summary_match.groupdict().get("summary", "") is None when the group took no
\* part in the match, and None has no strip.
SplitWith(t, chapter_marker, tm, sm) ==
    LET c1 == <<Event("INFO", "Splitting novel..."),
                IF tm.found THEN Event("INFO", "Book title, Author")
                ELSE Event("WARNING", "Book title and author not found.")>>
    IN  IF sm.found /\ ~sm.summary.set THEN Raised("AttributeError", c1)
        ELSE Bind(IF sm.found THEN Strip(sm.summary.val) ELSE <<>>, LAMBDA stripped :
                 PartitionChapters(t, chapter_marker, BookNameOf(tm), AuthorOf(tm),
                     IF stripped = <<>> THEN NoSummaryAvailable ELSE stripped,
                     Append(c1, IF stripped = <<>>
                                THEN Event("WARNING", "Summary not found.")
                                ELSE Event("INFO", "Summary extracted."))))

split_novel(t, chapter_marker, book_title_marker, summary_marker) ==
    Bind(TitleSearch(book_title_marker, t), LAMBDA tm :
        Bind(SummarySearch(summary_marker, t), LAMBDA sm :
            SplitWith(t, chapter_marker, tm, sm)))

----------------------------------------------------------------------------
(* bytes.decode(enc), strict (line 62), for the three codec families of    *)
(* the candidate list of line 147 that differ in structure.                *)

DecodeError == [ok |-> FALSE, text |-> <<>>]
Decoded(cps) == [ok |-> TRUE, text |-> cps]

\* utf-8: 1 to 4 bytes, continuation bytes 80..BF, no overlong forms, no
\* surrogates, nothing above U+10FFFF.  acc holds the code points decoded
\* before byte i.
RECURSIVE Utf8From(_, _, _)
Utf8From(b, i, acc) ==
    IF i > Len(b) THEN Decoded(acc)
    ELSE LET b1 == b[i]
             has(k) == i + k <= Len(b)
             cont(k) == b[i + k] \in 128..191
         IN  IF b1 < 128 THEN Utf8From(b, i + 1, Append(acc, b1))
             ELSE IF b1 \in 194..223 /\ has(1) /\ cont(1)
             THEN Utf8From(b, i + 2, Append(acc, (b1 - 192) * 64 + (b[i + 1] - 128)))
             ELSE IF /\ b1 \in 224..239 /\ has(2) /\ cont(2)
                     /\ b[i + 1] \in (IF b1 = 224 THEN 160..191
                                      ELSE IF b1 = 237 THEN 128..159 ELSE 128..191)
             THEN Utf8From(b, i + 3,
                           Append(acc, (b1 - 224) * 4096 + (b[i + 1] - 128) * 64
                                           + (b[i + 2] - 128)))
             ELSE IF /\ b1 \in 240..244 /\ has(3) /\ cont(2) /\ cont(3)
                     /\ b[i + 1] \in (IF b1 = 240 THEN 144..191
                                      ELSE IF b1 = 244 THEN 128..143 ELSE 128..191)
             THEN Utf8From(b, i + 4,
                           Append(acc, (b1 - 240) * 262144 + (b[i + 1] - 128) * 4096
                                           + (b[i + 2] - 128) * 64 + (b[i + 3] - 128)))
             ELSE DecodeError

\* The character of a multi-byte gb18030 sequence that the table below does
\* not list: some character that is no digit, no whitespace and none of the
\* characters the marker patterns name (a private-use code point stands for it).
UnlistedChar == 57344

\* The two-byte table of gb18030, for the sequences the model's texts use.
Gb18030TwoByte(b1, b2) ==
    IF <<b1, b2>> = <<181, 218>> THEN DI          \* B5 DA
    ELSE IF <<b1, b2>> = <<213, 194>> THEN ZHANG  \* D5 C2
    ELSE IF <<b1, b2>> = <<187, 216>> THEN HUI    \* BB D8
    ELSE IF <<b1, b2>> = <<210, 187>> THEN CN_ONE \* D2 BB
    ELSE UnlistedChar

\* gb18030: ASCII as itself; a lead byte 81..FE followed by a trail byte
\* 40..7E or 80..FE; or four bytes, lead 81..84 or 90..E3, then 30..39, then
\* 81..FE, then 30..39.
RECURSIVE Gb18030From(_, _, _)
Gb18030From(b, i, acc) ==
    IF i > Len(b) THEN Decoded(acc)
    ELSE LET b1 == b[i]
         IN  IF b1 < 128 THEN Gb18030From(b, i + 1, Append(acc, b1))
             ELSE IF b1 \notin 129..254 \/ i + 1 > Len(b) THEN DecodeError
             ELSE IF b[i + 1] \in (64..126) \cup (128..254)
             THEN Gb18030From(b, i + 2, Append(acc, Gb18030TwoByte(b1, b[i + 1])))
             ELSE IF /\ b[i + 1] \in 48..57
                     /\ b1 \in (129..132) \cup (144..227)
                     /\ i + 3 <= Len(b)
                     /\ b[i + 2] \in 129..254
                     /\ b[i + 3] \in 48..57
             THEN Gb18030From(b, i + 4, Append(acc, UnlistedChar))
             ELSE DecodeError

\* utf-16: 16-bit units in the byte order of a leading byte order mark, else
\* little-endian (the native order of the platforms the app runs on); a high
\* surrogate must be followed by a low one; an odd byte is an error.
RECURSIVE Utf16From(_, _, _, _)
Utf16From(b, i, little, acc) ==
    IF i > Len(b) THEN Decoded(acc)
    ELSE IF i = Len(b) THEN DecodeError
    ELSE LET unit(k) == IF little THEN b[k] + 256 * b[k + 1] ELSE 256 * b[k] + b[k + 1]
             u == unit(i)
         IN  IF u \in 55296..56319
             THEN IF i + 3 <= Len(b) /\ unit(i + 2) \in 56320..57343
                  THEN Utf16From(b, i + 4, little,
                                 Append(acc, 65536 + (u - 55296) * 1024
                                                 + (unit(i + 2) - 56320)))
                  ELSE DecodeError
             ELSE IF u \in 56320..57343 THEN DecodeError
             ELSE Utf16From(b, i + 2, little, Append(acc, u))

Utf16(b) ==
    IF Len(b) >= 2 /\ <<b[1], b[2]>> = <<255, 254>> THEN Utf16From(b, 3, TRUE, <<>>)
    ELSE IF Len(b) >= 2 /\ <<b[1], b[2]>> = <<254, 255>> THEN Utf16From(b, 3, FALSE, <<>>)
    ELSE Utf16From(b, 1, TRUE, <<>>)

\* raw.decode(enc); an encoding Python does not know raises LookupError, which
\* line 66 catches like a decoding error.
Decode(b, enc) ==
    IF enc = "gb18030" THEN Gb18030From(b, 1, <<>>)
    ELSE IF enc = "utf-8" THEN Utf8From(b, 1, <<>>)
    ELSE IF enc = "utf-16" THEN Utf16(b)
    ELSE DecodeError

----------------------------------------------------------------------------
(* try_decode_until_marker (lines 59-68).                                  *)

\* (None, None)
NoneNone(tried, cs) ==
    [found |-> FALSE, text |-> <<>>, enc |-> "None", tried |-> tried, calls |-> cs]

\* The loop from the i-th candidate on; tried counts the candidates the loop
\* has decoded with, cs the log calls made.  re.search raises re.error inside
\* the try block when the pattern does not compile, and the except clause of
\* line 66 catches it like a decoding error.
RECURSIVE TryFrom(_, _, _, _, _)
TryFrom(b, encs, marker_regex, i, cs) ==
    IF i > Len(encs) THEN NoneNone(i - 1, cs)
    ELSE Bind(Decode(b, encs[i]), LAMBDA d :
             IF ~d.ok \/ ~Compiles(marker_regex)
             THEN TryFrom(b, encs, marker_regex, i + 1,
                          Append(cs, Event("DEBUG", "Failed decoding with")))
             ELSE IF SearchFinds(marker_regex, d.text)
             THEN [found |-> TRUE, text |-> d.text, enc |-> encs[i], tried |-> i,
                   calls |-> Append(cs, Event("INFO", "Decoded using encoding"))]
             ELSE TryFrom(b, encs, marker_regex, i + 1, cs))

\* try_decode_until_marker without the marker check of line 63: the first
\* candidate that decodes wins.
RECURSIVE FirstDecodableFrom(_, _, _)
FirstDecodableFrom(b, encs, i) ==
    IF i > Len(encs) THEN NoneNone(i - 1, <<>>)
    ELSE Bind(Decode(b, encs[i]), LAMBDA d :
             IF d.ok
             THEN [found |-> TRUE, text |-> d.text, enc |-> encs[i], tried |-> i,
                   calls |-> <<Event("INFO", "Decoded using encoding")>>]
             ELSE FirstDecodableFrom(b, encs, i + 1))

try_decode_first_decodable(b, encs, marker_regex) == FirstDecodableFrom(b, encs, 1)

try_decode_until_marker(b, encs, marker_regex) == TryFrom(b, encs, marker_regex, 1, <<>>)

----------------------------------------------------------------------------
(* Inputs.                                                                 *)

\* The most pieces an input text or an uploaded file is put together from.
MaxFragments == 3
MaxChunks == 4

RECURSIVE Concat(_)
Concat(ss) == IF ss = <<>> THEN <<>> ELSE Head(ss) \o Concat(Tail(ss))

\* Every concatenation of at most n of the given pieces.
Compositions(pieces, n) ==
    UNION {{Concat([i \in 1..k |-> pieces[f[i]]]) : f \in [1..k -> 1..Len(pieces)]} :
           k \in 0..n}

\* Pieces of a novel: headings in several spellings, body text, separators,
\* summary labels and the two title conventions.
Fragments ==
    << <<DI, CN_ONE, ZHANG, SP, LATIN_x, NL>>,        \* heading, numeral, title
       <<DI, DIGIT_1, HUI, NL>>,                      \* heading in HUI, no title
       <<DI, SP, FW_DIGIT_1, ZHANG, SP, LATIN_y>>,    \* space after DI, full-width digit
       <<DI>>,
       <<LATIN_y, NL>>,
       <<SP>>,
       <<NL>>,
       <<CR>>,
       <<JIAN, JIE, COLON, LATIN_x, NL>>,             \* summary on one line
       <<NEI, RONG, JIAN, JIE>>,                      \* summary label alone
       <<L_BRACKET, LATIN_a, SLASH, ZUO, ZHE, COLON, LATIN_b, R_BRACKET, NL>>,
       <<LATIN_a, NL, ZUO, ZHE, FW_COLON, LATIN_b, NL>> >>

\* Scenario 1 of the specification, section 8: a bracketed title line
\* "<dao> / ZUO ZHE:<wu><ming>", a summary line, and two chapters.
Scenario1 ==
    <<12302, 36947, 32, 47, 32, 20316, 32773, 58, 26080, 21517, 12303, 10,
      20869, 23481, 31616, 20171, 58, 32, 19968, 27573, 25925, 20107, 12290, 10,
      31532, 19968, 31456, 32, 24320, 31471, 10,
      27491, 25991, 30002, 10,
      31532, 20108, 31456, 32, 39118, 36215, 10,
      27491, 25991, 20057>>

Texts == Compositions(Fragments, MaxFragments) \cup {Scenario1}

\* Pieces of an uploaded file: DI, the numeral one and ZHANG in utf-8, the
\* digit 1 and a newline, DI and ZHANG in gb18030.
Chunks ==
    << <<231, 172, 172>>, <<228, 184, 128>>, <<231, 171, 160>>,
       <<49>>, <<10>>, <<181, 218>>, <<213, 194>> >>

RawInputs == Compositions(Chunks, MaxChunks)

Codecs == {"gb18030", "utf-8", "utf-16"}

\* The candidate lists: every ordering of every non-empty set of codecs.
CandidateLists ==
    {encs \in UNION {[1..n -> Codecs] : n \in 1..Cardinality(Codecs)} :
        \A i, j \in 1..Len(encs) : i # j => encs[i] # encs[j]}

----------------------------------------------------------------------------
(* The state machine.                                                      *)

NoResult == [kind |-> "none", meta |-> NoMeta, chapters |-> <<>>]

Outcome(r) == [kind |-> r.kind, meta |-> r.meta, chapters |-> r.chapters]

Configs(chapter_markers, summary_markers) ==
    [chapter_marker : chapter_markers,
     book_title_marker : {DefaultBookTitleMarker},
     summary_marker : summary_markers]

\* main after an upload (line 150), with load_config's log level.
Init ==
    /\ log_level = "INFO"
    /\ config \in Configs({DefaultChapterMarker, RestOfLineChapterMarker,
                           UnclosedGroupMarker}, {DefaultSummaryMarker})
    /\ raw \in RawInputs
    /\ encodings \in CandidateLists
    /\ decoded = NoneNone(0, <<>>)
    /\ text = <<>>
    /\ result = NoResult
    /\ calls = <<>>
    /\ emitted = <<>>
    /\ pc = "uploaded"

\* main, lines 151-156.
DecodeUpload ==
    /\ pc = "uploaded"
    /\ \E d \in {try_decode_until_marker(raw, encodings, config.chapter_marker)} :
           /\ decoded' = d
           /\ text' = d.text
           /\ calls' = d.calls
           /\ emitted' = LogAll(<<>>, d.calls)
           /\ pc' = IF ~d.found \/ d.text = <<>> THEN "decode_failed" ELSE "decoded"
    /\ UNCHANGED <<log_level, config, raw, encodings, result>>

\* main, lines 195-232, the "Split Book" button with translation off: the
\* archive is written chapter by chapter, and any exception is logged.
SplitBook ==
    /\ pc = "decoded"
    /\ \E r \in {split_novel(text, config.chapter_marker, config.book_title_marker,
                             config.summary_marker)} :
       \E cs \in {r.calls \o
                  (IF r.kind = "ok"
                   THEN [i \in 1..Len(r.chapters) |-> Event("DEBUG", "Wrote")]
                   ELSE <<Event("ERROR", "Splitting error")>>)} :
           /\ result' = Outcome(r)
           /\ calls' = cs
           /\ emitted' = LogAll(<<>>, cs)
    /\ pc' = "split"
    /\ UNCHANGED <<log_level, config, raw, encodings, decoded, text>>

Next == DecodeUpload \/ SplitBook

Spec == Init /\ [][Next]_vars

\* split_novel called on a text of its caller's choosing.
CallSplitNovel ==
    /\ pc = "call"
    /\ \E r \in {split_novel(text, config.chapter_marker, config.book_title_marker,
                             config.summary_marker)} :
           /\ result' = Outcome(r)
           /\ calls' = r.calls
           /\ emitted' = LogAll(<<>>, r.calls)
    /\ pc' = "returned"
    /\ UNCHANGED <<log_level, config, raw, encodings, decoded, text>>

InitCall(levels, chapter_markers, summary_markers) ==
    /\ log_level \in levels
    /\ config \in Configs(chapter_markers, summary_markers)
    /\ text \in Texts
    /\ raw = <<>>
    /\ encodings = <<>>
    /\ decoded = NoneNone(0, <<>>)
    /\ result = NoResult
    /\ calls = <<>>
    /\ emitted = <<>>
    /\ pc = "call"

\* The default metadata patterns, either chapter marker.
InitSplit ==
    InitCall({"INFO"}, {DefaultChapterMarker, RestOfLineChapterMarker},
             {DefaultSummaryMarker})

NextSplit == CallSplitNovel

SpecSplit == InitSplit /\ [][NextSplit]_vars

\* Either summary marker, every log level.
InitMeta ==
    InitCall({LOG_LEVELS[i] : i \in 1..Len(LOG_LEVELS)}, {DefaultChapterMarker},
             {DefaultSummaryMarker, OptionalGroupSummaryMarker})

SpecMeta == InitMeta /\ [][NextSplit]_vars

----------------------------------------------------------------------------
(* Properties of try_decode_until_marker, checked under Spec.               *)

\* Whether the i-th candidate decodes raw strictly and the decoded text holds
\* a match of the chapter marker.
ViableAt(i) ==
    \E d \in {Decode(raw, encodings[i])} :
        d.ok /\ SearchFinds(config.chapter_marker, d.text)

\* C1: with a pattern that compiles, try_decode_until_marker returns the text
\* and the name of the first candidate, in list order, that decodes strictly
\* and whose text holds a match of the chapter marker, having tried no
\* candidate after it; it returns (None, None) exactly when no candidate is
\* viable.
C1_FirstViableCandidateWins ==
    (pc # "uploaded" /\ Compiles(config.chapter_marker)) =>
        \E V \in {{i \in 1..Len(encodings) : ViableAt(i)}} :
            IF V = {}
            THEN ~decoded.found /\ decoded.enc = "None" /\ decoded.text = <<>>
            ELSE \E k \in V :
                    /\ \A j \in V : k <= j
                    /\ decoded.found
                    /\ decoded.enc = encodings[k]
                    /\ decoded.text = Decode(raw, encodings[k]).text
                    /\ decoded.tried = k

\* C1, its case: under the default chapter marker the first candidate decodes
\* the bytes but its text holds no heading, and the second one is returned.
C1_SecondCandidateReturned ==
    /\ pc # "uploaded"
    /\ config.chapter_marker = DefaultChapterMarker
    /\ Len(encodings) >= 2
    /\ Decode(raw, encodings[1]).ok
    /\ ~ViableAt(1)
    /\ decoded.found
    /\ decoded.enc = encodings[2]

\* C2: with a chapter marker that does not compile, the outcome of
\* try_decode_until_marker is not the (None, None) it returns when no
\* candidate is viable, and no candidate has been iterated over.
C2_InvalidPatternIsNotDecodeFailure ==
    (pc # "uploaded" /\ ~Compiles(config.chapter_marker)) =>
        /\ ~(~decoded.found /\ decoded.enc = "None")
        /\ decoded.tried = 0

----------------------------------------------------------------------------
(* Properties of split_novel, checked under SpecSplit and SpecMeta.         *)

Matches == finditer(config.chapter_marker, text)

\* The end of the body span of the i-th of the matches ms.
SpanEnd(ms, i) == IF i < Len(ms) THEN ms[i + 1].start ELSE Len(text)

\* C3: on a text without a match of the chapter marker split_novel fails with
\* the no-chapters-found error, and a successful result has at least one
\* chapter.
C3_NoMatchesIsAnError ==
    pc = "returned" =>
        /\ Matches = <<>> => result.kind = NoChaptersFound
        /\ result.kind = "ok" => Len(result.chapters) >= 1

\* C3, its case: a non-empty text without a heading was split.
C3_TextWithoutHeading ==
    /\ pc = "returned"
    /\ text # <<>>
    /\ Matches = <<>>
    /\ result.kind = NoChaptersFound

\* C4: on a text with N >= 1 matches split_novel returns N chapters, the i-th
\* one titled by the i-th match in order of appearance (strictly increasing
\* start offsets), a match with an empty title included.
C4_OneChapterPerMatch ==
    pc = "returned" =>
        \E ms \in {Matches} :
            ms # <<>> =>
                /\ result.kind = "ok"
                /\ Len(result.chapters) = Len(ms)
                /\ \A i \in 1..Len(ms) : result.chapters[i].title = Strip(ms[i].full)
                /\ \A i \in 1..(Len(ms) - 1) : ms[i].start < ms[i + 1].start

\* C4, its case: two or more chapters, one of them with an empty title.
C4_EmptyTitleKept ==
    /\ pc = "returned"
    /\ result.kind = "ok"
    /\ Len(result.chapters) >= 2
    /\ \E i \in 1..Len(result.chapters) : result.chapters[i].title = <<>>

\* Whether body is the text of the span [a, b) without the whitespace at its
\* two ends.
IsTrimmedSpan(body, a, b) ==
    \E c \in a..b : \E d \in c..b :
        /\ body = Slice(text, c, d)
        /\ \A k \in (a + 1)..c : text[k] \in Whitespace
        /\ \A k \in (d + 1)..b : text[k] \in Whitespace
        /\ body # <<>> => body[1] \notin Whitespace /\ body[Len(body)] \notin Whitespace

\* C5: the title of chapter i is the trimmed group full of match i, and its
\* body the trimmed text from the end of match i to the start of match i + 1
\* (to the end of the text for the last match); the spans follow one another
\* without overlap and none starts before the end of the first heading.
C5_TitleAndBodySpans ==
    (pc = "returned" /\ result.kind = "ok") =>
        \E ms \in {Matches} :
            /\ Len(result.chapters) = Len(ms)
            /\ \A i \in 1..Len(ms) :
                /\ result.chapters[i].title = Strip(ms[i].full)
                /\ ms[i].start <= ms[i].end
                /\ ms[i].end <= SpanEnd(ms, i)
                /\ IsTrimmedSpan(result.chapters[i].body, ms[i].end, SpanEnd(ms, i))

\* C5, its case: text before the first heading, and a first body that is
\* shorter than its span.
C5_BodyTrimmedAndPreambleLeftOut ==
    /\ pc = "returned"
    /\ result.kind = "ok"
    /\ Len(result.chapters) >= 2
    /\ Matches[1].start > 0
    /\ result.chapters[1].body # <<>>
    /\ Len(result.chapters[1].body) < Matches[2].start - Matches[1].end

IsPrefix(a, b) == Len(a) <= Len(b) /\ SubSeq(b, 1, Len(a)) = a

\* C6: when the text that follows a heading starts with the chapter's own
\* title again, the chapter's body does not start with that title.
C6_DuplicatedTitleRemoved ==
    (pc = "returned" /\ result.kind = "ok") =>
        \E ms \in {Matches} :
            \A i \in 1..Len(ms) :
                \E title \in {Strip(ms[i].full)} :
                    (/\ title # <<>>
                     /\ IsPrefix(title, Strip(Slice(text, ms[i].end, SpanEnd(ms, i)))))
                        => ~IsPrefix(title, result.chapters[i].body)

\* C7: the title and summary steps of split_novel raise nothing, so the only
\* error is the no-chapters-found one; without a title match the book name and
\* the author are the defaults, and without a summary match, or with the
\* summary group unset or empty once trimmed, so is the summary.
C7_MetadataNeverFails ==
    pc = "returned" =>
        /\ result.kind \in {"ok", NoChaptersFound}
        /\ result.kind = "ok" =>
            /\ ~TitleSearch(config.book_title_marker, text).found =>
                  /\ result.meta.bookName = UnknownBook
                  /\ result.meta.author = UnknownAuthor
            /\ \E sm \in {SummarySearch(config.summary_marker, text)} :
                  (~sm.found \/ ~sm.summary.set \/ Strip(sm.summary.val) = <<>>)
                      => result.meta.summary = NoSummaryAvailable

\* C8: on the text of scenario 1, under the default patterns, split_novel
\* returns the book name <dao>, the author <wu><ming>, the summary of the
\* second line, the second heading as latest chapter, and the two chapters.
C8_Scenario1 ==
    (pc = "returned" /\ text = Scenario1 /\ config.chapter_marker = DefaultChapterMarker) =>
        /\ result.kind = "ok"
        /\ result.meta = [bookName |-> <<36947>>,
                          author |-> <<26080, 21517>>,
                          latestChapter |-> <<DI, CN_TWO, ZHANG, SP, 39118, 36215>>,
                          summary |-> <<CN_ONE, 27573, 25925, 20107, 12290>>]
        /\ result.chapters =
              << [title |-> <<DI, CN_ONE, ZHANG, SP, 24320, 31471>>,
                  body |-> <<27491, 25991, 30002>>],
                 [title |-> <<DI, CN_TWO, ZHANG, SP, 39118, 36215>>,
                  body |-> <<27491, 25991, 20057>>] >>

\* C9: under the default patterns no heading that the chapter marker matches
\* starts inside the text the summary group captured.
C9_SummaryStopsAtHeading ==
    (/\ pc = "returned"
     /\ config.chapter_marker = DefaultChapterMarker
     /\ config.summary_marker = DefaultSummaryMarker
     /\ result.kind = "ok") =>
        \E sm \in {SummarySearch(DefaultSummaryMarker, text)} :
            sm.found =>
                \A i \in 1..Len(Matches) :
                    ~(sm.start <= Matches[i].start /\ Matches[i].start < sm.end)

----------------------------------------------------------------------------
(* A property of log, checked under SpecMeta.                              *)

\* C10, for the most severe level: whatever level other than NONE is
\* configured, every ERROR event of the last operation is emitted.
C10_ErrorEventsEmitted ==
    (pc = "returned" /\ log_level # "NONE") =>
        \A i \in 1..Len(calls) :
            calls[i].level = "ERROR" => \E j \in 1..Len(emitted) : emitted[j] = calls[i]

====
